---- MODULE Spec2Model ----
(***************************************************************************)
(* Asset lifecycle of the virtual try-on catalog: the category and asset   *)
(* tables, the upload and thumbnail directories, the seeder run at process *)
(* start, and the JSON API and admin handlers that mutate them.            *)
(*                                                                         *)
(* Conventions                                                             *)
(*   - an Optional value is a sequence of length 0 (None) or 1;            *)
(*   - client-supplied text that the code inspects character by character  *)
(*     (file names, the anchor override, a category name) is a sequence of *)
(*     one-character strings; Str turns it into a string;                  *)
(*   - floats of the transform are kept in hundredths;                     *)
(*   - a timestamp is the number of the request that took it.              *)
(***************************************************************************)
EXTENDS Integers, Sequences, FiniteSets, TLC

VARIABLES
    categories,   \* AccessoryCategory table: id -> row
    assets,       \* AccessoryModel table: id -> row
    disk,         \* files of the working directory: path -> byte length
    dataFolder,   \* bundled files of data/models: name -> byte length
    started,      \* the process finished its startup and serves requests
    now,          \* clock, one tick per request
    uuidCount,    \* number of uuid4() calls so far
    resp,         \* the last request and its response
    editing       \* the admin edit suspended at an await, if there is one

vars == <<categories, assets, disk, dataFolder, started, now, uuidCount, resp,
         editing>>

----------------------------------------------------------------------------
(* Bounds *)

MaxReqs == 2
\* requests served between two starts of the process
MaxSeedReqs == 5

----------------------------------------------------------------------------
(* Optional values *)

None == <<>>
Some(v) == <<v>>
IsSet(o) == o # <<>>
Val(o) == o[1]

----------------------------------------------------------------------------
(* Text helpers: str.lower, str.strip, str.endswith, Path.suffix, int() *)

UpperCase == <<"A","B","C","D","E","F","G","H","I","J","K","L","M",
               "N","O","P","Q","R","S","T","U","V","W","X","Y","Z">>
LowerCase == <<"a","b","c","d","e","f","g","h","i","j","k","l","m",
               "n","o","p","q","r","s","t","u","v","w","x","y","z">>
Digits == <<"0","1","2","3","4","5","6","7","8","9">>
Whitespace == {" "}

LowerChar(c) ==
    IF \E i \in 1..Len(UpperCase) : UpperCase[i] = c
    THEN LowerCase[CHOOSE i \in 1..Len(UpperCase) : UpperCase[i] = c]
    ELSE c

Lower(s) == [i \in 1..Len(s) |-> LowerChar(s[i])]

RECURSIVE StripLeft(_)
StripLeft(s) ==
    IF s # <<>> /\ Head(s) \in Whitespace THEN StripLeft(Tail(s)) ELSE s

RECURSIVE StripRight(_)
StripRight(s) ==
    IF s # <<>> /\ s[Len(s)] \in Whitespace
    THEN StripRight(SubSeq(s, 1, Len(s) - 1))
    ELSE s

\* a strip that leaves trailing blanks in place
StripLeading(s) == StripLeft(s)
Strip(s) == StripRight(StripLeft(s))

RECURSIVE Str(_)
Str(s) == IF s = <<>> THEN "" ELSE Head(s) \o Str(Tail(s))

EndsWith(s, t) ==
    /\ Len(t) <= Len(s)
    /\ SubSeq(s, Len(s) - Len(t) + 1, Len(s)) = t

\* pathlib: the suffix starts at the last dot of the name, unless that dot is
\* the first or the last character of the name
Suffix(s) ==
    LET dots == {i \in 1..Len(s) : s[i] = "."}
    IN  IF dots = {} THEN <<>>
        ELSE LET i == CHOOSE d \in dots : \A e \in dots : e <= d
             IN  IF 1 < i /\ i < Len(s) THEN SubSeq(s, i, Len(s)) ELSE <<>>

IsDigit(c) == \E i \in 1..Len(Digits) : Digits[i] = c
DigitValue(c) == (CHOOSE i \in 1..Len(Digits) : Digits[i] = c) - 1

RECURSIVE DigitsValue(_)
DigitsValue(s) ==
    IF s = <<>> THEN 0
    ELSE 10 * DigitsValue(SubSeq(s, 1, Len(s) - 1)) + DigitValue(s[Len(s)])

\* int(text): surrounding whitespace is ignored, then an optional sign and
\* at least one digit; anything else raises ValueError
Unsigned(s) ==
    LET t == Strip(s)
    IN  IF t # <<>> /\ Head(t) \in {"+", "-"} THEN Tail(t) ELSE t

ParsesAsInt(s) ==
    /\ Unsigned(s) # <<>>
    /\ \A i \in 1..Len(Unsigned(s)) : IsDigit(Unsigned(s)[i])

IntOf(s) ==
    IF Strip(s) # <<>> /\ Head(Strip(s)) = "-"
    THEN 0 - DigitsValue(Unsigned(s))
    ELSE DigitsValue(Unsigned(s))

----------------------------------------------------------------------------
(* Configuration and the file system *)

UPLOAD_FOLDER == "models"
STATIC_FOLDER == "static"
TEMPLATES_FOLDER == "templates"
THUMBNAILS_FOLDER == "static/thumbnails"

\* the folders the configuration creates at import time
Directories == {UPLOAD_FOLDER, STATIC_FOLDER, TEMPLATES_FOLDER, THUMBNAILS_FOLDER}

\* Path(dir) / name; joining the empty name yields the directory itself
PathJoin(dir, name) == IF name = "" THEN dir ELSE dir \o "/" \o name

IsFile(d, path) == path \in DOMAIN d
PathExists(d, path) == path \in Directories \/ IsFile(d, path)

\* open(path, "wb").write(content): create or overwrite
WriteFile(d, path, size) ==
    [p \in DOMAIN d \cup {path} |-> IF p = path THEN size ELSE d[p]]

\* Path.unlink of a regular file
Unlink(d, path) == [p \in DOMAIN d \ {path} |-> d[p]]

get_file_size(d, path) == IF PathExists(d, path) /\ IsFile(d, path) THEN d[path] ELSE 0

MODEL_EXT_OR_TXT == {<<".","g","l","b">>, <<".","g","l","t","f">>, <<".","t","x","t">>}
ALLOWED_MODEL_EXT == {<<".","g","l","b">>, <<".","g","l","t","f">>}
THUMB_EXT_OR_GIF == {<<".","j","p","g">>, <<".","j","p","e","g">>,
                     <<".","p","n","g">>, <<".","w","e","b","p">>,
                     <<".","g","i","f">>}
ALLOWED_THUMB_EXT == {<<".","j","p","g">>, <<".","j","p","e","g">>,
                      <<".","p","n","g">>, <<".","w","e","b","p">>}

----------------------------------------------------------------------------
(* Rows *)

Transform(p, r, s) == [position |-> p, rotation |-> r, scale |-> s]

CategoryRow(name, description, anchor) ==
    [name |-> name, description |-> description, anchor_index |-> anchor]

\* SQLite rowid of the next inserted row: one more than the largest in use
NextId(table) ==
    IF DOMAIN table = {} THEN 1
    ELSE (CHOOSE m \in DOMAIN table : \A k \in DOMAIN table : k <= m) + 1

Insert(table, row) ==
    [k \in DOMAIN table \cup {NextId(table)} |->
        IF k \in DOMAIN table THEN table[k] ELSE row]

Delete(table, id) == [k \in DOMAIN table \ {id} |-> table[k]]

CategoryByName(cats, name) ==
    IF \E k \in DOMAIN cats : cats[k].name = name
    THEN Some(CHOOSE k \in DOMAIN cats : cats[k].name = name)
    ELSE None

AssetByUuid(uuid) ==
    IF \E k \in DOMAIN assets : assets[k].uuid = uuid
    THEN Some(CHOOSE k \in DOMAIN assets : assets[k].uuid = uuid)
    ELSE None

----------------------------------------------------------------------------
(* Requests and responses *)

NoFile == [filename |-> <<>>, size |-> 0]

NoRequest ==
    [id |-> 0, uuid |-> "", name |-> "", raw_name |-> <<>>, description |-> None,
     category_id |-> 0, category_name |-> "", model_file |-> NoFile,
     thumbnail_file |-> NoFile,
     transform |-> Transform(<<0, 0, 0>>, <<0, 0, 0>>, <<100, 100, 100>>),
     anchor_index |-> <<>>, cat_anchor |-> 0, is_active |-> None,
     active_only |-> TRUE, category |-> None,
     commit_fails |-> FALSE]   \* the store rejects the commit of this request

Response(op, status, req, new_uuid, data) ==
    [op |-> op, status |-> status, req |-> req, new_uuid |-> new_uuid, data |-> data]

----------------------------------------------------------------------------
(* Default catalog seeder *)

DefaultModelFiles ==
    <<"hat.glb", "cowboy_hat_free.glb", "eyewear_specs.glb", "wooden_sunglasses.glb">>
DefaultThumbnailFiles ==
    <<"hat.png", "cowboy_hat_free.png", "eyewear_specs.png", "wooden_sunglasses.png">>

RECURSIVE CopyFiles(_, _, _, _)
CopyFiles(d, data, names, dest) ==
    IF names = <<>> THEN d
    ELSE CopyFiles(
            IF Head(names) \in DOMAIN data
            THEN WriteFile(d, PathJoin(dest, Head(names)), data[Head(names)])
            ELSE d,
            data, Tail(names), dest)

copy_default_assets(d, data) ==
    CopyFiles(CopyFiles(d, data, DefaultModelFiles, UPLOAD_FOLDER),
              data, DefaultThumbnailFiles, THUMBNAILS_FOLDER)

DefaultCategories ==
    <<CategoryRow("hats", Some("Head accessories like hats, caps, and headwear"), 10),
      CategoryRow("glasses", Some("Eye accessories like glasses, sunglasses, and eyewear"), 168)>>

DefaultModel(d, t, uuid, name, file, thumb, cat, transform, anchor) ==
    [uuid |-> uuid, name |-> name, description |-> Some("default"),
     filename |-> file, original_filename |-> file,
     file_size |-> get_file_size(d, PathJoin(UPLOAD_FOLDER, file)),
     file_type |-> ".glb", thumbnail_path |-> Some("thumbnails/" \o thumb),
     category_id |-> cat, transform |-> transform, anchor_index |-> Some(anchor),
     is_active |-> TRUE, created_at |-> t, updated_at |-> None]

DefaultModels(d, t, hats, glasses) ==
    <<DefaultModel(d, t, "hat1-default", "Wizard Hat", "hat.glb", "hat.png", hats,
        Transform(<<0, -20, -70>>, <<0, -9000, 0>>, <<27, 27, 27>>), 10),
      DefaultModel(d, t, "hat2-default", "Cowboy Hat", "cowboy_hat_free.glb",
        "cowboy_hat_free.png", hats,
        Transform(<<0, 0, -75>>, <<0, 0, 0>>, <<7, 7, 7>>), 10),
      DefaultModel(d, t, "glasses1-default", "Eyewear Specs", "eyewear_specs.glb",
        "eyewear_specs.png", glasses,
        Transform(<<-52, -25, -125>>, <<0, 9000, 0>>, <<35, 35, 35>>), 168),
      DefaultModel(d, t, "glasses2-default", "Wooden Sunglasses", "wooden_sunglasses.glb",
        "wooden_sunglasses.png", glasses,
        Transform(<<0, -5, 0>>, <<500, 0, 0>>, <<23, 23, 23>>), 168)>>

RECURSIVE InsertAll(_, _)
InsertAll(table, rows) ==
    IF rows = <<>> THEN table ELSE InsertAll(Insert(table, Head(rows)), Tail(rows))

\* lifespan -> init_db: runs at every start of the process, the first one and
\* every restart
init_db ==
    LET cats == IF DOMAIN categories = {}
                THEN InsertAll(categories, DefaultCategories)
                ELSE categories
        hats == CategoryByName(cats, "hats")
        glasses == CategoryByName(cats, "glasses")
        copied == copy_default_assets(disk, dataFolder)
    IN  /\ categories' = cats
        /\ IF DOMAIN assets # {}
           THEN /\ UNCHANGED <<assets, disk>>
                /\ started' = TRUE
           ELSE /\ disk' = copied
                /\ IF IsSet(hats) /\ IsSet(glasses)
                   THEN /\ assets' = InsertAll(assets,
                                DefaultModels(copied, now, Val(hats), Val(glasses)))
                        /\ started' = TRUE
                   ELSE \* hats_category.id on None: the startup raises and the
                        \* process does not come up
                        /\ UNCHANGED assets
                        /\ started' = FALSE
        \* the startup answers no request
        /\ UNCHANGED <<dataFolder, now, uuidCount, resp>>
        \* a start of the process has no request in flight
        /\ editing' = None

----------------------------------------------------------------------------
(* JSON API *)

Tick == now' = now + 1
Serving == started /\ now < MaxReqs

\* model.anchor_index or category_obj.anchor_index
EffectiveAnchor(model, category) ==
    IF IsSet(model.anchor_index) /\ Val(model.anchor_index) # 0
    THEN Val(model.anchor_index)
    ELSE category.anchor_index

ModelData(model, category) ==
    [id |-> model.uuid, name |-> model.name, description |-> model.description,
     filename |-> model.filename,
     thumbnail |-> IF IsSet(model.thumbnail_path)
                   THEN Some("/static/" \o Val(model.thumbnail_path)) ELSE None,
     position |-> model.transform.position, rotation |-> model.transform.rotation,
     scale |-> model.transform.scale,
     anchor_index |-> EffectiveAnchor(model, category),
     created_at |-> model.created_at]

\* a listing that drops the "if active_only:" filter
ModelsByCategoryAnyStatus(category, active_only) ==
    {[category |-> categories[assets[k].category_id].name,
      model |-> ModelData(assets[k], categories[assets[k].category_id])] :
        k \in {j \in DOMAIN assets :
                /\ assets[j].category_id \in DOMAIN categories
                /\ (IsSet(category) /\ Val(category) # "")
                      => categories[assets[j].category_id].name = Val(category)}}

\* GET /api/models: the joined rows that pass the filters, each under its
\* category's name
ModelsByCategory(category, active_only) ==
    {[category |-> categories[assets[k].category_id].name,
      model |-> ModelData(assets[k], categories[assets[k].category_id])] :
        k \in {j \in DOMAIN assets :
                /\ assets[j].category_id \in DOMAIN categories
                /\ (IsSet(category) /\ Val(category) # "")
                      => categories[assets[j].category_id].name = Val(category)
                /\ active_only => assets[j].is_active}}

get_models(category, active_only) ==
    LET req == [NoRequest EXCEPT !.category = category, !.active_only = active_only]
    IN  /\ Serving
        /\ Tick
        /\ resp' = Response("get_models", "ok", req, "",
                            ModelsByCategory(category, active_only))
        /\ UNCHANGED <<categories, assets, disk, dataFolder, started, uuidCount, editing>>

uuid4(n) == "uuid-" \o ToString(n)

\* the except clause of the upload: "if file_path.exists(): file_path.unlink()"
KeepUploadedFile(d, file_path) == d
RollbackUpload(d, file_path) ==
    IF PathExists(d, file_path) THEN Unlink(d, file_path) ELSE d

HasModelExtension(filename) ==
    \E e \in ALLOWED_MODEL_EXT : EndsWith(Lower(filename), e)

\* POST /api/upload
upload_model(file, category_name, name, description, store_ok) ==
    LET req == [NoRequest EXCEPT !.model_file = file, !.category_name = category_name,
                                 !.name = name, !.description = description,
                                 !.commit_fails = ~store_ok]
        category == CategoryByName(categories, category_name)
        model_uuid == uuid4(uuidCount + 1)
        file_extension == Str(Lower(Suffix(file.filename)))
        unique_filename == model_uuid \o file_extension
        file_path == PathJoin(UPLOAD_FOLDER, unique_filename)
        written == WriteFile(disk, file_path, file.size)
        new_model ==
            [uuid |-> model_uuid, name |-> name, description |-> description,
             filename |-> unique_filename, original_filename |-> Str(file.filename),
             file_size |-> file.size, file_type |-> file_extension,
             thumbnail_path |-> None, category_id |-> Val(category),
             transform |-> Transform(<<0, 0, -100>>, <<0, 0, 0>>, <<20, 20, 20>>),
             anchor_index |-> Some(categories[Val(category)].anchor_index),
             is_active |-> TRUE, created_at |-> now + 1, updated_at |-> None]
    IN  /\ Serving
        /\ Tick
        /\ IF ~HasModelExtension(file.filename) \/ ~IsSet(category)
           THEN /\ resp' = Response("upload_model", "400", req, "", {})
                /\ UNCHANGED <<assets, disk, uuidCount>>
           ELSE /\ uuidCount' = uuidCount + 1
                /\ IF store_ok
                   THEN /\ disk' = written
                        /\ assets' = Insert(assets, new_model)
                        /\ resp' = Response("upload_model", "ok", req, model_uuid, {})
                   ELSE \* the commit raises: the handler removes the file it wrote
                        /\ disk' = RollbackUpload(written, file_path)
                        /\ UNCHANGED assets
                        /\ resp' = Response("upload_model", "500", req, model_uuid, {})
        /\ UNCHANGED <<categories, dataFolder, started, editing>>

\* DELETE /api/models/{model_uuid}
delete_model(model_uuid) ==
    LET req == [NoRequest EXCEPT !.uuid = model_uuid]
        found == AssetByUuid(model_uuid)
        model == assets[Val(found)]
        file_path == PathJoin(UPLOAD_FOLDER, model.filename)
        d1 == IF PathExists(disk, file_path) THEN Unlink(disk, file_path) ELSE disk
        \* the thumbnail is looked up relative to the working directory
        thumb == Val(model.thumbnail_path)
        d2 == IF IsSet(model.thumbnail_path) /\ PathExists(d1, thumb)
              THEN Unlink(d1, thumb) ELSE d1
    IN  /\ Serving
        /\ Tick
        /\ IF ~IsSet(found)
           THEN /\ resp' = Response("delete_model", "404", req, "", {})
                /\ UNCHANGED <<assets, disk>>
           ELSE IF file_path \in Directories
           THEN \* unlink of a directory raises; nothing was committed
                /\ resp' = Response("delete_model", "500", req, "", {})
                /\ UNCHANGED <<assets, disk>>
           ELSE /\ disk' = d2
                /\ assets' = Delete(assets, Val(found))
                /\ resp' = Response("delete_model", "ok", req, "", {})
        /\ UNCHANGED <<categories, dataFolder, started, uuidCount, editing>>

----------------------------------------------------------------------------
(* Admin console *)

\* POST /admin/categories/{category_id}/edit
admin_edit_category_post(category_id, raw_name, description, anchor_index) ==
    LET req == [NoRequest EXCEPT !.id = category_id, !.raw_name = raw_name,
                                 !.description = description,
                                 !.cat_anchor = anchor_index]
        new_name == Str(Lower(Strip(raw_name)))
        taken == \E k \in DOMAIN categories \ {category_id} :
                    categories[k].name = new_name
    IN  /\ Serving
        /\ Tick
        /\ IF category_id \notin DOMAIN categories
           THEN \* the 404 is caught by the handler's own except clause, which
                \* then reads category.name of None
                /\ resp' = Response("admin_edit_category", "500", req, "", {})
                /\ UNCHANGED categories
           ELSE IF taken
           THEN \* the unique index rejects the commit; the form is shown again
                /\ resp' = Response("admin_edit_category", "form_error", req, "", {})
                /\ UNCHANGED categories
           ELSE /\ categories' =
                    [categories EXCEPT ![category_id] =
                        CategoryRow(new_name, description, anchor_index)]
                /\ resp' = Response("admin_edit_category", "303", req, "", {})
        /\ UNCHANGED <<assets, disk, dataFolder, started, uuidCount, editing>>

FormRequest(id, form) ==
    [NoRequest EXCEPT !.id = id, !.name = form.name, !.description = form.description,
                      !.category_id = form.category_id, !.model_file = form.model_file,
                      !.thumbnail_file = form.thumbnail_file,
                      !.transform = form.transform,
                      !.anchor_index = form.anchor_index, !.is_active = form.is_active]

\* "if anchor_index and anchor_index.strip()"
HasAnchorOverrideIfNumeric(text) ==
    text # <<>> /\ Strip(text) # <<>> /\ ParsesAsInt(text)
HasAnchorOverride(text) == text # <<>> /\ Strip(text) # <<>>

\* the anchor of a create or edit form whose override, if any, parses
ParsedAnchorNoDefault(form) ==
    IF HasAnchorOverride(form.anchor_index)
    THEN Some(IntOf(form.anchor_index))
    ELSE None
ParsedAnchor(form) ==
    IF HasAnchorOverride(form.anchor_index)
    THEN Some(IntOf(form.anchor_index))
    ELSE IF form.category_id \in DOMAIN categories
         THEN Some(categories[form.category_id].anchor_index)
         ELSE None

HasFile(file) == file.filename # <<>>
Extension(file) == Lower(Suffix(file.filename))

\* "Delete old file" of the edit: the file the row names, when it is there
KeepOldModelFile(d, model) == d
RemoveOldModelFile(d, model) ==
    IF model.filename # "" /\ PathExists(d, PathJoin(UPLOAD_FOLDER, model.filename))
    THEN Unlink(d, PathJoin(UPLOAD_FOLDER, model.filename))
    ELSE d

\* "Delete old thumbnail" of the edit
RemoveOldThumbnail(d, model) ==
    IF IsSet(model.thumbnail_path)
       /\ PathExists(d, PathJoin(STATIC_FOLDER, Val(model.thumbnail_path)))
    THEN Unlink(d, PathJoin(STATIC_FOLDER, Val(model.thumbnail_path)))
    ELSE d

\* POST /admin/models/create
admin_create_model_post(form) ==
    LET req == FormRequest(0, form)
        new_uuid == uuid4(uuidCount + 1)
        model_name == new_uuid \o Str(Extension(form.model_file))
        with_model == HasFile(form.model_file)
        d1 == IF with_model
              THEN WriteFile(disk, PathJoin(UPLOAD_FOLDER, model_name),
                             form.model_file.size)
              ELSE disk
        with_thumb == /\ HasFile(form.thumbnail_file)
                      /\ Extension(form.thumbnail_file) \in ALLOWED_THUMB_EXT
        thumb_name == "thumb_" \o new_uuid \o Str(Extension(form.thumbnail_file))
        d2 == IF with_thumb
              THEN WriteFile(d1, PathJoin(THUMBNAILS_FOLDER, thumb_name),
                             form.thumbnail_file.size)
              ELSE d1
        new_model ==
            [uuid |-> new_uuid, name |-> form.name, description |-> form.description,
             filename |-> IF with_model THEN model_name ELSE "",
             original_filename |-> IF with_model THEN Str(form.model_file.filename) ELSE "",
             file_size |-> IF with_model THEN form.model_file.size ELSE 0,
             file_type |-> IF with_model THEN Str(Extension(form.model_file)) ELSE "",
             thumbnail_path |-> IF with_thumb THEN Some("thumbnails/" \o thumb_name)
                                ELSE None,
             category_id |-> form.category_id, transform |-> form.transform,
             anchor_index |-> ParsedAnchor(form),
             is_active |-> IF IsSet(form.is_active) THEN Val(form.is_active) ELSE TRUE,
             created_at |-> now + 1, updated_at |-> None]
    IN  /\ Serving
        /\ Tick
        /\ IF HasAnchorOverride(form.anchor_index) /\ ~ParsesAsInt(form.anchor_index)
           THEN /\ resp' = Response("admin_create_model", "form_error", req, "", {})
                /\ UNCHANGED <<assets, disk, uuidCount>>
           ELSE IF with_model /\ Extension(form.model_file) \notin ALLOWED_MODEL_EXT
           THEN /\ uuidCount' = uuidCount + 1
                /\ resp' = Response("admin_create_model", "form_error", req, "", {})
                /\ UNCHANGED <<assets, disk>>
           ELSE /\ uuidCount' = uuidCount + 1
                /\ disk' = d2
                /\ assets' = Insert(assets, new_model)
                /\ resp' = Response("admin_create_model", "303", req, new_uuid, {})
        /\ UNCHANGED <<categories, dataFolder, started, editing>>

\* POST /admin/models/{model_id}/edit
admin_edit_model_post(model_id, form) ==
    LET req == FormRequest(model_id, form)
        model == assets[model_id]
        with_model == HasFile(form.model_file)
        d0 == IF with_model THEN RemoveOldModelFile(disk, model) ELSE disk
        model_name == model.uuid \o Str(Extension(form.model_file))
        d1 == IF with_model
              THEN WriteFile(d0, PathJoin(UPLOAD_FOLDER, model_name),
                             form.model_file.size)
              ELSE d0
        with_thumb == /\ HasFile(form.thumbnail_file)
                      /\ Extension(form.thumbnail_file) \in ALLOWED_THUMB_EXT
        d2 == IF with_thumb THEN RemoveOldThumbnail(d1, model) ELSE d1
        thumb_name == "thumb_" \o model.uuid \o Str(Extension(form.thumbnail_file))
        d3 == IF with_thumb
              THEN WriteFile(d2, PathJoin(THUMBNAILS_FOLDER, thumb_name),
                             form.thumbnail_file.size)
              ELSE d2
        edited ==
            [model EXCEPT
                !.name = form.name, !.description = form.description,
                !.category_id = form.category_id, !.transform = form.transform,
                !.anchor_index = ParsedAnchor(form),
                !.is_active = IF IsSet(form.is_active) THEN Val(form.is_active)
                              ELSE FALSE,
                !.updated_at = Some(now + 1),
                !.filename = IF with_model THEN model_name ELSE @,
                !.original_filename = IF with_model THEN Str(form.model_file.filename)
                                      ELSE @,
                !.file_size = IF with_model THEN form.model_file.size ELSE @,
                !.file_type = IF with_model THEN Str(Extension(form.model_file)) ELSE @,
                !.thumbnail_path = IF with_thumb THEN Some("thumbnails/" \o thumb_name)
                                   ELSE @]
    IN  /\ Serving
        /\ Tick
        /\ IF model_id \notin DOMAIN assets
           THEN \* the 404 is caught by the handler's own except clause, which
                \* then reads model.name of None
                /\ resp' = Response("admin_edit_model", "500", req, "", {})
                /\ UNCHANGED <<assets, disk>>
           ELSE IF HasAnchorOverride(form.anchor_index) /\ ~ParsesAsInt(form.anchor_index)
           THEN /\ resp' = Response("admin_edit_model", "form_error", req, "", {})
                /\ UNCHANGED <<assets, disk>>
           ELSE IF with_model /\ Extension(form.model_file) \notin ALLOWED_MODEL_EXT
           THEN \* the fields already assigned are never committed
                /\ resp' = Response("admin_edit_model", "form_error", req, "", {})
                /\ UNCHANGED <<assets, disk>>
           ELSE /\ disk' = d3
                /\ assets' = [assets EXCEPT ![model_id] = edited]
                /\ resp' = Response("admin_edit_model", "303", req, "", {})
        /\ UNCHANGED <<categories, dataFolder, started, uuidCount, editing>>

\* The same handler as the event loop runs it beside other requests: it can
\* be suspended at "await model_file.read()" and at "await
\* thumbnail_file.read()", and nowhere else.

\* the request gets as far as an await: its target exists, its form is valid
\* and it carries a file the handler reads
ReachesAwait(model_id, form) ==
    /\ model_id \in DOMAIN assets
    /\ ~(HasAnchorOverride(form.anchor_index) /\ ~ParsesAsInt(form.anchor_index))
    /\ HasFile(form.model_file) => Extension(form.model_file) \in ALLOWED_MODEL_EXT
    /\ \/ HasFile(form.model_file)
       \/ /\ HasFile(form.thumbnail_file)
          /\ Extension(form.thumbnail_file) \in ALLOWED_THUMB_EXT

\* "Update basic fields": what the handler assigns to the loaded row before
\* it looks at the files
AssignedFields(model, form, t) ==
    [model EXCEPT
        !.name = form.name, !.description = form.description,
        !.category_id = form.category_id, !.transform = form.transform,
        !.anchor_index = ParsedAnchor(form),
        !.is_active = IF IsSet(form.is_active) THEN Val(form.is_active) ELSE FALSE,
        !.updated_at = Some(t)]

\* session.commit() of an edit that was suspended: an UPDATE, by primary key,
\* of the columns whose value the handler changed
Committed(table, id, loaded, model) ==
    [table EXCEPT ![id] =
        [c \in DOMAIN model |->
            IF model[c] # loaded[c] THEN model[c] ELSE table[id][c]]]

\* from the start of the handler to its first await, or to its end when it
\* reaches none
admin_edit_model_begin(model_id, form) ==
    LET loaded == assets[model_id]
        model == AssignedFields(loaded, form, now + 1)
        with_model == HasFile(form.model_file)
    IN  /\ Serving
        /\ editing = None
        /\ IF ~ReachesAwait(model_id, form)
           THEN admin_edit_model_post(model_id, form)
           ELSE /\ Tick
                /\ disk' = IF with_model THEN RemoveOldModelFile(disk, model)
                           ELSE RemoveOldThumbnail(disk, model)
                /\ editing' = Some([pc |-> IF with_model THEN "read_model"
                                           ELSE "read_thumbnail",
                                    id |-> model_id, loaded |-> loaded,
                                    model |-> model, form |-> form])
                /\ UNCHANGED <<categories, assets, dataFolder, started,
                               uuidCount, resp>>

\* from an await to the next one, or to the end of the handler
admin_edit_model_resume ==
    LET e == Val(editing)
        form == e.form
        req == FormRequest(e.id, form)
        with_thumb == /\ HasFile(form.thumbnail_file)
                      /\ Extension(form.thumbnail_file) \in ALLOWED_THUMB_EXT
        model_name == e.model.uuid \o Str(Extension(form.model_file))
        thumb_name == "thumb_" \o e.model.uuid \o Str(Extension(form.thumbnail_file))
        \* after "await model_file.read()"
        d1 == WriteFile(disk, PathJoin(UPLOAD_FOLDER, model_name),
                        form.model_file.size)
        m1 == [e.model EXCEPT
                 !.filename = model_name,
                 !.original_filename = Str(form.model_file.filename),
                 !.file_size = form.model_file.size,
                 !.file_type = Str(Extension(form.model_file))]
        \* after "await thumbnail_file.read()"
        d2 == WriteFile(disk, PathJoin(THUMBNAILS_FOLDER, thumb_name),
                        form.thumbnail_file.size)
        m2 == [e.model EXCEPT !.thumbnail_path = Some("thumbnails/" \o thumb_name)]
        model == IF e.pc = "read_model" THEN m1 ELSE m2
    IN  /\ started
        /\ IsSet(editing)
        /\ IF e.pc = "read_model" /\ with_thumb
           THEN /\ disk' = RemoveOldThumbnail(d1, m1)
                /\ editing' = Some([e EXCEPT !.pc = "read_thumbnail", !.model = m1])
                /\ UNCHANGED <<assets, resp>>
           ELSE /\ disk' = IF e.pc = "read_model" THEN d1 ELSE d2
                /\ editing' = None
                /\ IF e.id \in DOMAIN assets
                   THEN /\ assets' = Committed(assets, e.id, e.loaded, model)
                        /\ resp' = Response("admin_edit_model", "303", req, "", {})
                   ELSE \* the UPDATE matches no row: the commit raises, and so
                        \* does the except clause when it reads model.name of
                        \* the row that is gone
                        /\ resp' = Response("admin_edit_model", "500", req, "", {})
                        /\ UNCHANGED assets
        /\ UNCHANGED <<categories, dataFolder, started, now, uuidCount>>

\* POST /admin/models/{model_id}/delete
admin_delete_model(model_id) ==
    LET req == [NoRequest EXCEPT !.id = model_id]
        model == assets[model_id]
        file_path == PathJoin(UPLOAD_FOLDER, model.filename)
        d1 == IF model.filename # "" /\ PathExists(disk, file_path)
              THEN Unlink(disk, file_path) ELSE disk
        thumb_path == PathJoin(STATIC_FOLDER, Val(model.thumbnail_path))
        d2 == IF IsSet(model.thumbnail_path) /\ PathExists(d1, thumb_path)
              THEN Unlink(d1, thumb_path) ELSE d1
    IN  /\ Serving
        /\ Tick
        /\ IF model_id \notin DOMAIN assets
           THEN /\ resp' = Response("admin_delete_model", "404", req, "", {})
                /\ UNCHANGED <<assets, disk>>
           ELSE /\ disk' = d2
                /\ assets' = Delete(assets, model_id)
                /\ resp' = Response("admin_delete_model", "303", req, "", {})
        /\ UNCHANGED <<categories, dataFolder, started, uuidCount, editing>>

\* POST /admin/models/{model_id}/toggle
\* a handler that switches the asset off whatever its state, instead of
\* flipping the flag
admin_switch_off_model(model_id) ==
    LET req == [NoRequest EXCEPT !.id = model_id]
    IN  /\ Serving
        /\ Tick
        /\ IF model_id \notin DOMAIN assets
           THEN /\ resp' = Response("admin_toggle_model", "404", req, "", {})
                /\ UNCHANGED assets
           ELSE /\ assets' = [assets EXCEPT
                                ![model_id].is_active = FALSE,
                                ![model_id].updated_at = Some(now + 1)]
                /\ resp' = Response("admin_toggle_model", "ok", req, "",
                                    {[is_active |-> FALSE]})
        /\ UNCHANGED <<categories, disk, dataFolder, started, uuidCount, editing>>

\* the answer carries the flag as it is after the toggle
admin_toggle_model(model_id) ==
    LET req == [NoRequest EXCEPT !.id = model_id]
    IN  /\ Serving
        /\ Tick
        /\ IF model_id \notin DOMAIN assets
           THEN /\ resp' = Response("admin_toggle_model", "404", req, "", {})
                /\ UNCHANGED assets
           ELSE /\ assets' = [assets EXCEPT
                                ![model_id].is_active = ~assets[model_id].is_active,
                                ![model_id].updated_at = Some(now + 1)]
                /\ resp' = Response("admin_toggle_model", "ok", req, "",
                                    {[is_active |-> ~assets[model_id].is_active]})
        /\ UNCHANGED <<categories, disk, dataFolder, started, uuidCount, editing>>

----------------------------------------------------------------------------
(* Inputs *)

GlbFile == [filename |-> <<"a", ".", "g", "l", "b">>, size |-> 3]
PngFile == [filename |-> <<"t", ".", "P", "N", "G">>, size |-> 1]

BaseForm ==
    [name |-> "Top Hat", description |-> None, category_id |-> 1,
     model_file |-> GlbFile, thumbnail_file |-> PngFile,
     transform |-> Transform(<<0, 0, 0>>, <<0, 0, 0>>, <<100, 100, 100>>),
     anchor_index |-> <<>>, is_active |-> Some(TRUE)]

ModelFiles ==
    {NoFile, GlbFile,
     [filename |-> <<"b", ".", "G", "L", "T", "F">>, size |-> 5],
     [filename |-> <<"c", ".", "t", "x", "t">>, size |-> 2]}
ThumbnailFiles ==
    {NoFile, PngFile,
     [filename |-> <<"s", ".", "j", "p", "g">>, size |-> 1],
     [filename |-> <<"g", ".", "g", "i", "f">>, size |-> 1]}
AnchorTexts == {<<>>, <<" ">>, <<"7">>, <<"0">>, <<"x">>, <<" ", "4", "2">>}

\* the forms submitted: the base form with at most one field changed
Forms ==
    {[BaseForm EXCEPT !.name = "Renamed"],
     [BaseForm EXCEPT !.description = Some("text")],
     [BaseForm EXCEPT !.transform =
        Transform(<<0, 10, -50>>, <<0, 9000, 0>>, <<30, 30, 30>>)],
     [BaseForm EXCEPT !.is_active = None]}
    \cup {[BaseForm EXCEPT !.category_id = c] : c \in {1, 2, 9}}
    \cup {[BaseForm EXCEPT !.model_file = f] : f \in ModelFiles}
    \cup {[BaseForm EXCEPT !.thumbnail_file = f] : f \in ThumbnailFiles}
    \cup {[BaseForm EXCEPT !.anchor_index = t] : t \in AnchorTexts}

UploadedFiles ==
    {[filename |-> <<"a", ".", "g", "l", "b">>, size |-> 3],
     [filename |-> <<"b", ".", "G", "L", "T", "F">>, size |-> 5],
     [filename |-> <<"c", ".", "t", "x", "t">>, size |-> 2],
     [filename |-> <<".", "g", "l", "b">>, size |-> 4]}

CategoryNames == {"hats", "glasses", "Hats"}

Filters == {None, Some("hats"), Some("glasses")}

KnownUuids == {assets[k].uuid : k \in DOMAIN assets} \cup {"no-such-uuid"}

\* the ids of the rows, and one id no row has
ModelIds == DOMAIN assets \cup {NextId(assets)}

CategoryIds == {1, 2, 9}
RawCategoryNames ==
    {<<" ", "H", "a", "t", "s", " ">>, <<"c", "a", "p", "s">>,
     <<"G", "L", "A", "S", "S", "E", "S">>}
CategoryAnchors == {0, 33}

----------------------------------------------------------------------------

BundledFiles ==
    [n \in {DefaultModelFiles[i] : i \in 1..4} \cup {DefaultThumbnailFiles[i] : i \in 1..4}
        |-> Len(n)]

\* the data folder as shipped, and one that lacks the first model file
DataFolders ==
    {BundledFiles, [n \in DOMAIN BundledFiles \ {"hat.glb"} |-> BundledFiles[n]]}

Init ==
    /\ categories = <<>>
    /\ assets = <<>>
    /\ disk = <<>>
    /\ dataFolder \in DataFolders
    /\ started = FALSE
    /\ now = 0
    /\ uuidCount = 0
    /\ resp = Response("none", "none", NoRequest, "", {})
    /\ editing = None

Next ==
    \/ init_db
    \/ \E c \in Filters, a \in BOOLEAN : get_models(c, a)
    \/ \E f \in UploadedFiles, c \in CategoryNames :
          upload_model(f, c, "Top Hat", None, TRUE)
    \/ \E u \in KnownUuids : delete_model(u)
    \/ \E c \in CategoryIds, n \in RawCategoryNames, a \in CategoryAnchors :
          admin_edit_category_post(c, n, None, a)
    \/ \E f \in Forms : admin_create_model_post(f)
    \/ \E m \in ModelIds, f \in Forms : admin_edit_model_post(m, f)
    \/ \E m \in ModelIds : admin_delete_model(m)
    \/ \E m \in ModelIds : admin_toggle_model(m)

Spec == Init /\ [][Next]_vars

\* the same system with a store whose commit may fail during an upload
NextStoreFailure ==
    \/ Next
    \/ \E f \in UploadedFiles, c \in CategoryNames :
          upload_model(f, c, "Top Hat", None, FALSE)

SpecStoreFailure == Init /\ [][NextStoreFailure]_vars

\* Requests served side by side: an admin edit can be suspended at its awaits
\* while deletes, which have no await, run to their end.
NextConcurrent ==
    \/ init_db
    \/ \E m \in ModelIds, f \in Forms : admin_edit_model_begin(m, f)
    \/ admin_edit_model_resume
    \/ \E u \in KnownUuids : delete_model(u)
    \/ \E m \in ModelIds : admin_delete_model(m)

SpecConcurrent == Init /\ [][NextConcurrent]_vars

\* The catalog under maintenance and restarts: categories are renamed, assets
\* are deleted, and the process is started again.  The clock starts early
\* enough for MaxSeedReqs requests.
InitReseed ==
    /\ categories = <<>>
    /\ assets = <<>>
    /\ disk = <<>>
    /\ dataFolder \in DataFolders
    /\ started = FALSE
    /\ now = MaxReqs - MaxSeedReqs
    /\ uuidCount = 0
    /\ resp = Response("none", "none", NoRequest, "", {})
    /\ editing = None

NextReseed ==
    \/ init_db
    \/ \E c \in CategoryIds, n \in RawCategoryNames, a \in CategoryAnchors :
          admin_edit_category_post(c, n, None, a)
    \/ \E m \in ModelIds : admin_delete_model(m)

SpecReseed == InitReseed /\ [][NextReseed]_vars

----------------------------------------------------------------------------
(* Properties *)

ModelFileOnDisk(model) == IsFile(disk, PathJoin(UPLOAD_FOLDER, model.filename))
ThumbnailOnDisk(model) ==
    IsFile(disk, PathJoin(STATIC_FOLDER, Val(model.thumbnail_path)))

\* C1: in every reachable state, every asset row with a non-empty filename has
\* that file in the upload directory, and every row with a thumbnail_path has
\* that file in the thumbnails directory.
C1_RowsHaveFiles ==
    \A k \in DOMAIN assets :
        /\ assets[k].filename # "" => ModelFileOnDisk(assets[k])
        /\ IsSet(assets[k].thumbnail_path) => ThumbnailOnDisk(assets[k])

\* the step taken is a request of the named handler (every request advances
\* the clock; a start of the process does not)
Handled(op) == now' = now + 1 /\ resp'.op = op

\* the step deletes the row k: an API delete of its uuid or an admin delete of
\* its id
DeleteOf(k) ==
    \/ Handled("delete_model") /\ resp'.req.uuid = assets[k].uuid
    \/ Handled("admin_delete_model") /\ resp'.req.id = k

\* C2: a delete of an existing asset, by uuid through the API or by id through
\* the admin console, leaves no row, no model file and no thumbnail file of
\* it; a delete addressed to an asset that is already gone is answered 404.
C2_DeleteRemovesRowAndFiles ==
    [][/\ \A k \in DOMAIN assets :
            DeleteOf(k) =>
                /\ \A j \in DOMAIN assets' : assets'[j].uuid # assets[k].uuid
                /\ assets[k].filename # "" =>
                      ~IsFile(disk', PathJoin(UPLOAD_FOLDER, assets[k].filename))
                /\ IsSet(assets[k].thumbnail_path) =>
                      ~IsFile(disk', PathJoin(STATIC_FOLDER,
                                              Val(assets[k].thumbnail_path)))
       /\ (Handled("delete_model") /\ ~IsSet(AssetByUuid(resp'.req.uuid)))
            => resp'.status = "404"
       /\ (Handled("admin_delete_model") /\ resp'.req.id \notin DOMAIN assets)
            => resp'.status = "404"]_vars

\* the texts an extension taken from a submitted file name can be
ExtensionTexts == {"", ".glb", ".gltf", ".txt"}

\* the model files of the upload directory that belong to a row: the file its
\* filename names and every <uuid><ext>
OwnedModelFiles(d, model) ==
    {p \in DOMAIN d :
        \/ model.filename # "" /\ p = PathJoin(UPLOAD_FOLDER, model.filename)
        \/ \E e \in ExtensionTexts : p = PathJoin(UPLOAD_FOLDER, model.uuid \o e)}

ReplacesModelFile ==
    /\ Handled("admin_edit_model")
    /\ resp'.status = "303"
    /\ resp'.req.model_file.filename # <<>>

\* C3: after a successful admin edit with a replacement model file, the asset
\* keeps its uuid, exactly one model file of the asset is in the upload
\* directory, it is <uuid><new ext> (the row's new filename), and the file the
\* row named before is gone when its name differs.
C3_ReplaceLeavesOneFile ==
    [][ReplacesModelFile =>
        LET k == resp'.req.id
            new_name == assets[k].uuid \o Str(Lower(Suffix(resp'.req.model_file.filename)))
        IN  /\ assets'[k].uuid = assets[k].uuid
            /\ assets'[k].filename = new_name
            /\ OwnedModelFiles(disk', assets[k]) = {PathJoin(UPLOAD_FOLDER, new_name)}
            /\ OwnedModelFiles(disk', assets'[k]) = {PathJoin(UPLOAD_FOLDER, new_name)}
            /\ (assets[k].filename # "" /\ assets[k].filename # new_name)
                  => ~IsFile(disk', PathJoin(UPLOAD_FOLDER, assets[k].filename))]_vars

\* a seeded asset whose model file was replaced by one of another extension
C3_Witness ==
    /\ resp.op = "admin_edit_model"
    /\ resp.status = "303"
    /\ resp.req.id \in DOMAIN assets
    /\ assets[resp.req.id].uuid = "hat2-default"
    /\ assets[resp.req.id].filename = "hat2-default.gltf"
    /\ IsFile(disk, "models/hat2-default.gltf")
    /\ ~IsFile(disk, "models/cowboy_hat_free.glb")

\* a text with no character other than whitespace
Blank(text) == \A i \in 1..Len(text) : text[i] = " "

\* the edit form carries a model file whose extension is neither .glb nor
\* .gltf, or an anchor text that is not blank and is no integer
FailsValidation(req) ==
    \/ /\ req.model_file.filename # <<>>
       /\ Str(Lower(Suffix(req.model_file.filename))) \notin {".glb", ".gltf"}
    \/ ~Blank(req.anchor_index) /\ ~ParsesAsInt(req.anchor_index)

\* C4: an admin edit of an existing asset that fails validation is answered
\* with the form's error and changes neither a row nor a file.
C4_FailedEditIsAtomic ==
    [][(Handled("admin_edit_model") /\ resp'.req.id \in DOMAIN assets) =>
        /\ FailsValidation(resp'.req) =>
              resp'.status = "form_error"
        /\ resp'.status = "form_error" =>
              /\ FailsValidation(resp'.req)
              /\ assets' = assets
              /\ disk' = disk
              /\ categories' = categories]_vars

\* an edit of an existing asset with a .txt model file was answered with the
\* form's error
C4_Witness ==
    /\ resp.op = "admin_edit_model"
    /\ resp.status = "form_error"
    /\ resp.req.id \in DOMAIN assets
    /\ Str(Lower(Suffix(resp.req.model_file.filename))) = ".txt"
    /\ assets[resp.req.id].name # resp.req.name

\* C5: an upload whose file extension is not .glb/.gltf, or whose category
\* name is unknown, is answered 400 and changes neither the asset table nor
\* the disk; any other upload adds one row and one file <uuid><ext> whose byte
\* length is the row's file_size.
C5_UploadValidation ==
    [][Handled("upload_model") =>
        LET file == resp'.req.model_file
            ext == Str(Lower(Suffix(file.filename)))
            path == PathJoin(UPLOAD_FOLDER, resp'.new_uuid \o ext)
        IN  IF ext \notin {".glb", ".gltf"}
               \/ ~IsSet(CategoryByName(categories, resp'.req.category_name))
            THEN /\ resp'.status = "400"
                 /\ assets' = assets
                 /\ disk' = disk
            ELSE /\ resp'.status = "ok"
                 /\ \E k \in DOMAIN assets' \ DOMAIN assets :
                        /\ DOMAIN assets' = DOMAIN assets \cup {k}
                        /\ assets'[k].uuid = resp'.new_uuid
                        /\ assets'[k].filename = resp'.new_uuid \o ext
                        /\ assets'[k].file_size = file.size
                 /\ \A k \in DOMAIN assets : assets'[k] = assets[k]
                 /\ DOMAIN disk' = DOMAIN disk \cup {path}
                 /\ path \notin DOMAIN disk
                 /\ disk'[path] = file.size]_vars

\* C6: when the store fails after an upload wrote its file, the answer is an
\* internal failure, and afterwards neither the file the handler wrote nor a
\* row of that uuid exists.
C6_FailedUploadRollsBack ==
    /\ (/\ resp.op = "upload_model"
        /\ resp.req.commit_fails
        /\ resp.status # "400") => resp.status = "500"
    /\ (resp.op = "upload_model" /\ resp.status = "500") =>
        /\ resp.new_uuid # ""
        /\ ~IsSet(AssetByUuid(resp.new_uuid))
        /\ \A e \in ExtensionTexts :
              ~IsFile(disk, PathJoin(UPLOAD_FOLDER, resp.new_uuid \o e))

\* an upload of a valid file into a known category met the store failure
C6_Witness ==
    /\ resp.op = "upload_model"
    /\ resp.status = "500"
    /\ resp.req.commit_fails
    /\ Str(Lower(Suffix(resp.req.model_file.filename))) \in {".glb", ".gltf"}
    /\ IsSet(CategoryByName(categories, resp.req.category_name))

\* the row the step created
Created(k) ==
    /\ k \in DOMAIN assets' \ DOMAIN assets
    /\ assets'[k].uuid = resp'.new_uuid

\* C7: an asset created without an anchor override (an upload, or an admin
\* create whose anchor text is empty or whitespace) into an existing category
\* stores that category's default anchor of the time, and a category edit
\* changes the stored anchor of no asset.
C7_DefaultAnchorAtCreation ==
    [][/\ (Handled("upload_model") /\ resp'.status = "ok") =>
            \E k \in DOMAIN assets', c \in DOMAIN categories :
                /\ Created(k)
                /\ categories[c].name = resp'.req.category_name
                /\ assets'[k].category_id = c
                /\ assets'[k].anchor_index = Some(categories[c].anchor_index)
       /\ (/\ Handled("admin_create_model")
           /\ resp'.status = "303"
           /\ Blank(resp'.req.anchor_index)
           /\ resp'.req.category_id \in DOMAIN categories) =>
            \E k \in DOMAIN assets' :
                /\ Created(k)
                /\ assets'[k].category_id = resp'.req.category_id
                /\ assets'[k].anchor_index =
                      Some(categories[resp'.req.category_id].anchor_index)
       /\ Handled("admin_edit_category") =>
            /\ DOMAIN assets' = DOMAIN assets
            /\ \A k \in DOMAIN assets :
                  assets'[k].anchor_index = assets[k].anchor_index]_vars

\* a category edit changed the default anchor of the category of an asset
\* that was created without an override; the asset kept the older default
C7_Witness ==
    /\ resp.op = "admin_edit_category"
    /\ resp.status = "303"
    /\ \E k \in DOMAIN assets :
          /\ assets[k].uuid = "uuid-1"
          /\ assets[k].category_id = resp.req.id
          /\ assets[k].anchor_index = Some(10)
          /\ categories[resp.req.id].anchor_index = 33

\* C8: an admin create whose anchor text is non-empty and does not parse as
\* an integer fails with the form's error, and no row and no file is added.
C8_NonNumericAnchorRejected ==
    [][(/\ Handled("admin_create_model")
        /\ resp'.req.anchor_index # <<>>
        /\ ~ParsesAsInt(resp'.req.anchor_index)) =>
            /\ resp'.status = "form_error"
            /\ assets' = assets
            /\ disk' = disk]_vars

\* C8, amended: an admin create whose anchor text is not blank (it has a
\* character other than whitespace) and does not parse as an integer fails
\* with the form's error, and no row and no file is added.
C8_NonBlankNonNumericAnchorRejected ==
    [][(/\ Handled("admin_create_model")
        /\ ~Blank(resp'.req.anchor_index)
        /\ ~ParsesAsInt(resp'.req.anchor_index)) =>
            /\ resp'.status = "form_error"
            /\ assets' = assets
            /\ disk' = disk]_vars

\* a create with the anchor text "x" and valid model and thumbnail files was
\* answered with the form's error
C8_Witness ==
    /\ resp.op = "admin_create_model"
    /\ resp.status = "form_error"
    /\ resp.req.anchor_index = <<"x">>
    /\ Str(Lower(Suffix(resp.req.model_file.filename))) = ".glb"
    /\ Str(Lower(Suffix(resp.req.thumbnail_file.filename))) = ".png"

\* C9: every entry of the model listing reports the asset's own anchor
\* override when it has one, whatever its value, and its category's default
\* anchor only when it has none.
C9_ListingAnchor ==
    \A c \in Filters, a \in BOOLEAN :
        \A entry \in ModelsByCategory(c, a) :
            \E k \in DOMAIN assets :
                /\ assets[k].uuid = entry.model.id
                /\ entry.model.anchor_index =
                      IF assets[k].anchor_index # None
                      THEN assets[k].anchor_index[1]
                      ELSE categories[assets[k].category_id].anchor_index

\* the step is addressed to an asset or category that does not exist
AddressedToNothing ==
    \/ /\ \/ Handled("admin_edit_model")
          \/ Handled("admin_delete_model")
          \/ Handled("admin_toggle_model")
       /\ resp'.req.id \notin DOMAIN assets
    \/ Handled("admin_edit_category") /\ resp'.req.id \notin DOMAIN categories
    \/ Handled("delete_model") /\ ~IsSet(AssetByUuid(resp'.req.uuid))

\* C10: an operation addressed to an asset or category that does not exist
\* is answered with not-found and changes no row and no file.
C10_MissingTargetIsNotFound ==
    [][AddressedToNothing =>
        /\ resp'.status = "404"
        /\ assets' = assets
        /\ categories' = categories
        /\ disk' = disk]_vars


\* a file the row refers to is not in its directory, or the row names no model
\* file at all
LacksAFile(model) ==
    \/ model.filename = ""
    \/ ~ModelFileOnDisk(model)
    \/ IsSet(model.thumbnail_path) /\ ~ThumbnailOnDisk(model)

\* C11: a delete of an existing asset whose model file or thumbnail file is
\* not on disk, or whose filename is empty, succeeds through the API and
\* through the admin console, and the row is removed.
C11_DeleteWithoutFilesSucceeds ==
    [][\A k \in DOMAIN assets :
          (DeleteOf(k) /\ LacksAFile(assets[k])) =>
              /\ resp'.status \in {"ok", "303"}
              /\ \A j \in DOMAIN assets' : assets'[j].uuid # assets[k].uuid]_vars


\* the step toggles the row k
ToggleOf(k) == Handled("admin_toggle_model") /\ resp'.req.id = k

\* the step before this one was a successful toggle of the row k
JustToggled(k) ==
    /\ resp.op = "admin_toggle_model"
    /\ resp.status = "ok"
    /\ resp.req.id = k

\* C12: a toggle of an existing asset flips is_active, sets updated_at to the
\* time of the toggle, and changes no other field of the row, no other row
\* and no file; the second of two toggles in succession brings is_active back
\* to the value it had before the first (the opposite of the value the first
\* toggle answered with).
C12_ToggleTwiceRestores ==
    [][\A k \in DOMAIN assets :
          ToggleOf(k) =>
              /\ resp'.status = "ok"
              /\ assets' = [assets EXCEPT
                              ![k] = [assets[k] EXCEPT
                                        !.is_active = ~assets[k].is_active,
                                        !.updated_at = Some(now')]]
              /\ disk' = disk
              /\ categories' = categories
              /\ JustToggled(k) =>
                    \A first \in resp.data :
                        assets'[k].is_active = ~first.is_active]_vars

\* the seeded wizard hat (active when seeded) has been toggled by both
\* requests made so far: it is active again and carries the time of the
\* second toggle
C12_Witness ==
    /\ now = 2
    /\ JustToggled(1)
    /\ 1 \in DOMAIN assets
    /\ assets[1].uuid = "hat1-default"
    /\ assets[1].name = "Wizard Hat"
    /\ assets[1].is_active
    /\ assets[1].updated_at = Some(2)
    /\ resp.data = {[is_active |-> TRUE]}


\* the uuids of the active assets whose category bears the given name
ActiveIn(name) ==
    {assets[k].uuid : k \in {j \in DOMAIN assets :
        /\ assets[j].is_active
        /\ assets[j].category_id \in DOMAIN categories
        /\ categories[assets[j].category_id].name = name}}

\* C13: a listing asked with active_only contains no asset whose active flag
\* is false; asked with a category name as well, it contains exactly the
\* active assets of the category of that name, each under that name.
C13_ListingFilters ==
    [][(Handled("get_models") /\ resp'.req.active_only) =>
          /\ \A entry \in resp'.data :
                \E k \in DOMAIN assets :
                    assets[k].uuid = entry.model.id /\ assets[k].is_active
          /\ IsSet(resp'.req.category) =>
                /\ {entry.model.id : entry \in resp'.data}
                      = ActiveIn(Val(resp'.req.category))
                /\ \A entry \in resp'.data :
                      entry.category = Val(resp'.req.category)]_vars

\* the hats were listed with active_only while the catalog held an inactive
\* hat and an active one
C13_Witness ==
    /\ resp.op = "get_models"
    /\ resp.req.active_only
    /\ resp.req.category = Some("hats")
    /\ resp.data # {}
    /\ \E k \in DOMAIN assets :
          /\ ~assets[k].is_active
          /\ assets[k].category_id \in DOMAIN categories
          /\ categories[assets[k].category_id].name = "hats"


\* the trimmed, lowercased form of each name the console submits
TrimmedLowercase(raw) ==
    CASE raw = <<" ", "H", "a", "t", "s", " ">> -> "hats"
      [] raw = <<"c", "a", "p", "s">> -> "caps"
      [] raw = <<"G", "L", "A", "S", "S", "E", "S">> -> "glasses"

\* the names that are their own trimmed, lowercased form
NormalizedNames == {"hats", "glasses", "caps"}

\* the step edits the category k under a name that, once normalized, is the
\* name of another category
CollidingEditOf(k) ==
    /\ Handled("admin_edit_category")
    /\ resp'.req.id = k
    /\ \E j \in DOMAIN categories \ {k} :
          categories[j].name = TrimmedLowercase(resp'.req.raw_name)

\* C14: in every reachable state each stored category name is its own
\* trimmed, lowercased form and no two categories bear the same name; a
\* successful category edit stores the trimmed, lowercased form of the
\* submitted name; an edit whose normalized name is another category's name
\* fails and changes no category.
C14_CategoryNamesNormalizedUnique ==
    /\ [](\A k \in DOMAIN categories :
            /\ categories[k].name \in NormalizedNames
            /\ \A j \in DOMAIN categories \ {k} :
                  categories[j].name # categories[k].name)
    /\ [][\A k \in DOMAIN categories :
            /\ (Handled("admin_edit_category") /\ resp'.req.id = k
                  /\ resp'.status = "303") =>
                  categories'[k].name = TrimmedLowercase(resp'.req.raw_name)
            /\ CollidingEditOf(k) =>
                  /\ resp'.status # "303"
                  /\ categories' = categories]_vars

\* the first category was renamed to caps, and an edit of the second one to
\* caps was then refused
C14_Witness ==
    /\ resp.op = "admin_edit_category"
    /\ resp.status = "form_error"
    /\ resp.req.id = 2
    /\ resp.req.raw_name = <<"c", "a", "p", "s">>
    /\ categories[1].name = "caps"
    /\ categories[2].name = "glasses"


\* the uuids handed out so far: the seeded ones and the generated ones
AllUuids ==
    {"hat1-default", "hat2-default", "glasses1-default", "glasses2-default"}
        \cup {uuid4(n) : n \in 1..uuidCount}

\* the path names a file of the upload directory
InUploadFolder(p) ==
    \/ \E i \in 1..Len(DefaultModelFiles) :
          p = PathJoin(UPLOAD_FOLDER, DefaultModelFiles[i])
    \/ \E u \in AllUuids, e \in ExtensionTexts :
          p = PathJoin(UPLOAD_FOLDER, u \o e)

\* the paths the step wrote, overwrote or removed
ChangedPaths ==
    {p \in DOMAIN disk \cup DOMAIN disk' :
        \/ p \notin DOMAIN disk
        \/ p \notin DOMAIN disk'
        \/ disk[p] # disk'[p]}

\* the form carries a thumbnail file whose extension is none of .jpg, .jpeg,
\* .png, .webp
HasWrongThumbnail(req) ==
    /\ req.thumbnail_file.filename # <<>>
    /\ Str(Lower(Suffix(req.thumbnail_file.filename)))
          \notin {".jpg", ".jpeg", ".png", ".webp"}

\* C16: an admin create, or an admin edit of an existing asset, whose
\* thumbnail file has an extension other than .jpg/.jpeg/.png/.webp succeeds
\* when the rest of the form is valid, writes and removes nothing outside the
\* upload directory, and leaves thumbnail_path unset on the created row and
\* as it was on the edited row.
C16_WrongThumbnailIgnored ==
    [][/\ (Handled("admin_create_model") /\ HasWrongThumbnail(resp'.req)) =>
            /\ ~FailsValidation(resp'.req) => resp'.status = "303"
            /\ \A p \in ChangedPaths : InUploadFolder(p)'
            /\ \A k \in DOMAIN assets' :
                  assets'[k].uuid = resp'.new_uuid =>
                      assets'[k].thumbnail_path = None
       /\ \A k \in DOMAIN assets :
            (Handled("admin_edit_model") /\ resp'.req.id = k
                /\ HasWrongThumbnail(resp'.req)) =>
                /\ ~FailsValidation(resp'.req) => resp'.status = "303"
                /\ \A p \in ChangedPaths : InUploadFolder(p)'
                /\ assets'[k].thumbnail_path = assets[k].thumbnail_path]_vars

\* the seeded wizard hat was edited with a .gif thumbnail: the edit went
\* through and the row still names its seeded thumbnail, which is on disk
C16_Witness ==
    /\ resp.op = "admin_edit_model"
    /\ resp.status = "303"
    /\ resp.req.id = 1
    /\ HasWrongThumbnail(resp.req)
    /\ 1 \in DOMAIN assets
    /\ assets[1].thumbnail_path = Some("thumbnails/hat.png")
    /\ ThumbnailOnDisk(assets[1])


\* the step is a start of the process that changed something: the seeder ran
\* (a request advances the clock, a start does not)
SeederRan == now' = now

\* the ids of the categories named hats or glasses
HatsOrGlasses(cats) ==
    {k \in DOMAIN cats : cats[k].name \in {"hats", "glasses"}}

\* C15: whenever the seeder runs at a start of the process, it completes
\* without error; on an empty category table it inserts exactly hats (anchor
\* 10) and glasses (anchor 168); on an empty asset table it inserts exactly
\* four asset rows, each referencing an existing hats or glasses category;
\* when assets exist it inserts no asset.
C15_SeederCompletes ==
    [][SeederRan =>
          /\ started'
          /\ categories = <<>> =>
                /\ Len(categories') = 2
                /\ categories'[1].name = "hats"
                /\ categories'[1].anchor_index = 10
                /\ categories'[2].name = "glasses"
                /\ categories'[2].anchor_index = 168
          /\ categories # <<>> => categories' = categories
          /\ DOMAIN assets = {} =>
                /\ Cardinality(DOMAIN assets') = 4
                /\ \A k \in DOMAIN assets' :
                      assets'[k].category_id \in HatsOrGlasses(categories')
          /\ DOMAIN assets # {} => assets' = assets]_vars


\* C17: when an admin edit that replaces the model file runs beside a delete
\* of the same asset, suspended only at its awaits, no state with both
\* requests finished has a model file <uuid><ext> in the upload directory
\* for a uuid that no row bears.
C17_NoModelFileWithoutRow ==
    editing = None =>
        \A u \in AllUuids, e \in ExtensionTexts :
            IsFile(disk, PathJoin(UPLOAD_FOLDER, u \o e)) =>
                \E k \in DOMAIN assets : assets[k].uuid = u

====
